---- MODULE Spec2Model ----
(***************************************************************************)
(* Model of the data_governance package: the QualityValidator rule engine *)
(* (quality.py) and the DataGovernancePipeline run that drives it         *)
(* (pipeline.py, access_control.py, lineage.py).                          *)
(*                                                                         *)
(* Conventions.                                                            *)
(*  - A Python str is a sequence of one-character strings.                 *)
(*  - A Python dict is a function whose DOMAIN is its key set.             *)
(*  - A float is a record [kind, c]: kind "fin" carries the value in      *)
(*    hundredths (c = 1 is 0.01), kinds "nan", "inf", "-inf" are the IEEE *)
(*    specials.  Configuration numbers (min_value) use the same unit.     *)
(*  - A raised exception is a result record with exc # "none".            *)
(***************************************************************************)
EXTENDS Integers, Sequences, FiniteSets, TLC

\* ------------------------------------------------------------------ bounds

\* Longest rule list configured for a dataset.
MaxRules == 2

\* Most rows in a table handed to validate.
MaxRows == 2

\* Most midnights the wall clock crosses during one behaviour.
MaxTicks == 1

\* Longest rule list of a dataset, and most rows of a raw file, in a pipeline run.
MaxRunRules == 1

MaxRunRows == 1

\* Most access policies in the configuration.
MaxPolicies == 2

\* ----------------------------------------------------------- Python values

DigitChars == <<"0", "1", "2", "3", "4", "5", "6", "7", "8", "9">>

IsDigit(ch) == \E d \in 1..10 : DigitChars[d] = ch

DigitVal(ch) == (CHOOSE d \in 1..10 : DigitChars[d] = ch) - 1

AllDigits(s) == \A k \in 1..Len(s) : IsDigit(s[k])

RECURSIVE NatOf(_)
\* The number a non-empty run of decimal digits denotes.
NatOf(s) ==
    IF Len(s) = 0 THEN 0
    ELSE NatOf(SubSeq(s, 1, Len(s) - 1)) * 10 + DigitVal(s[Len(s)])

RECURSIVE StrNat(_)
StrNat(n) ==
    IF n < 10 THEN <<DigitChars[n + 1]>>
    ELSE StrNat(n \div 10) \o <<DigitChars[(n % 10) + 1]>>

Abs(n) == IF n < 0 THEN -n ELSE n

\* Cell values of a table column.
IntCell(n) == [t |-> "int", v |-> n]
\* A Python int whose magnitude is beyond the range of a float (>= 2^1024).
HugeIntCell == [t |-> "int_huge"]
FloatCell(c) == [t |-> "float", f |-> [kind |-> "fin", c |-> c]]
\* numpy.nan, the marker pandas stores for a missing value.
NaNCell == [t |-> "float", f |-> [kind |-> "nan", c |-> 0]]
NoneCell == [t |-> "None"]
StrCell(s) == [t |-> "str", s |-> s]

\* Leading digits of str() of the huge integer 10**400 (the rest are zeros too).
HugeDigits == <<"1", "0", "0", "0", "0", "0", "0", "0", "0", "0", "0", "0">>

\* repr of a float: sign, integer part, ".", and the shortest fraction.
StrFloat(f) ==
    IF f.kind # "fin" THEN
        IF f.kind = "nan" THEN <<"n", "a", "n">>
        ELSE IF f.kind = "inf" THEN <<"i", "n", "f">>
        ELSE <<"-", "i", "n", "f">>
    ELSE
        LET a == Abs(f.c)
            frac == a % 100
            fracDigits ==
                IF frac % 10 = 0 THEN <<DigitChars[(frac \div 10) + 1]>>
                ELSE <<DigitChars[(frac \div 10) + 1], DigitChars[(frac % 10) + 1]>>
        IN  (IF f.c < 0 THEN <<"-">> ELSE <<>>) \o StrNat(a \div 100) \o <<".">> \o fracDigits

\* str(value)
Str(value) ==
    CASE value.t = "str" -> value.s
      [] value.t = "int" ->
            (IF value.v < 0 THEN <<"-">> ELSE <<>>) \o StrNat(Abs(value.v))
      [] value.t = "int_huge" -> HugeDigits
      [] value.t = "float" -> StrFloat(value.f)
      [] value.t = "None" -> <<"N", "o", "n", "e">>

Fin(c) == [exc |-> "none", f |-> [kind |-> "fin", c |-> c]]
Special(kind) == [exc |-> "none", f |-> [kind |-> kind, c |-> 0]]
FloatError(exc) == [exc |-> exc, f |-> [kind |-> "nan", c |-> 0]]

IndexOfDot(s) ==
    IF \E k \in 1..Len(s) : s[k] = "." THEN CHOOSE k \in 1..Len(s) : s[k] = "." ELSE 0

\* float(str): optional sign, then nan / inf / infinity, or digits with an
\* optional fraction.  The fraction is kept to hundredths.
FloatOfStr(s) ==
    LET signed == Len(s) > 0 /\ s[1] \in {"-", "+"}
        neg == signed /\ s[1] = "-"
        body == IF signed THEN SubSeq(s, 2, Len(s)) ELSE s
        dot == IndexOfDot(body)
        whole == IF dot = 0 THEN body ELSE SubSeq(body, 1, dot - 1)
        frac == IF dot = 0 THEN <<>> ELSE SubSeq(body, dot + 1, Len(body))
        frac2 == SubSeq(frac \o <<"0", "0">>, 1, 2)
        mag == NatOf(whole) * 100 + NatOf(frac2)
    IN  IF body = <<"n", "a", "n">> THEN Special("nan")
        ELSE IF body \in {<<"i", "n", "f">>, <<"i", "n", "f", "i", "n", "i", "t", "y">>}
            THEN Special(IF neg THEN "-inf" ELSE "inf")
        ELSE IF AllDigits(whole) /\ AllDigits(frac) /\ Len(whole) + Len(frac) > 0
            THEN Fin(IF neg THEN -mag ELSE mag)
        ELSE FloatError("ValueError")

\* float(value), quality.py line 103
Float(value) ==
    CASE value.t = "str" -> FloatOfStr(value.s)
      [] value.t = "int" -> Fin(value.v * 100)
      [] value.t = "int_huge" -> FloatError("OverflowError")
      [] value.t = "float" -> [exc |-> "none", f |-> value.f]
      [] value.t = "None" -> FloatError("TypeError")

\* numeric_value <= min_value on floats: false whenever numeric_value is NaN.
FloatLe(f, m) ==
    CASE f.kind = "fin" -> f.c <= m
      [] f.kind = "-inf" -> TRUE
      [] f.kind = "inf" -> FALSE
      [] f.kind = "nan" -> FALSE

IsLeap(y) == (y % 4 = 0 /\ y % 100 # 0) \/ y % 400 = 0

DaysInMonth(y, m) ==
    IF m = 2 THEN (IF IsLeap(y) THEN 29 ELSE 28)
    ELSE IF m \in {4, 6, 9, 11} THEN 30 ELSE 31

\* datetime.fromisoformat(s).date() for the date-only form YYYY-MM-DD; every
\* other string drawn here raises ValueError.
FromIsoFormat(s) ==
    LET shaped == /\ Len(s) = 10
                  /\ s[5] = "-" /\ s[8] = "-"
                  /\ AllDigits(SubSeq(s, 1, 4)) /\ AllDigits(SubSeq(s, 6, 7))
                  /\ AllDigits(SubSeq(s, 9, 10))
        y == NatOf(SubSeq(s, 1, 4))
        m == NatOf(SubSeq(s, 6, 7))
        d == NatOf(SubSeq(s, 9, 10))
    IN  IF shaped /\ y >= 1 /\ m \in 1..12 /\ d >= 1 /\ d <= DaysInMonth(y, m)
        THEN [exc |-> "none", date |-> [year |-> y, month |-> m, day |-> d]]
        ELSE [exc |-> "ValueError", date |-> [year |-> 1, month |-> 1, day |-> 1]]

\* ------------------------------------------------------------ dict access

\* What dict.get(key) returns for an absent key when no default is given.
PyNone == "<None>"

\* rule.get(key, default)
Get(rule, key, default) == IF key \in DOMAIN rule THEN rule[key] ELSE default

\* ------------------------------------------------------------------ regex

\* A compiled pattern is a sequence of items [cls, q] (cls "digit" is [0-9],
\* cls "any" is ".", q is "1" or "*"; X+ is held as X X*) and the flag `end`
\* for a trailing "$".
InClass(cls, ch) == IF cls = "digit" THEN IsDigit(ch) ELSE TRUE

RECURSIVE MatchFrom(_, _, _, _)
MatchFrom(pattern, i, s, pos) ==
    IF i > Len(pattern.items) THEN (pattern.end => pos = Len(s) + 1)
    ELSE LET item == pattern.items[i]
             here == pos <= Len(s) /\ InClass(item.cls, s[pos])
         IN  IF item.q = "1" THEN here /\ MatchFrom(pattern, i + 1, s, pos + 1)
             ELSE \/ MatchFrom(pattern, i + 1, s, pos)
                  \/ here /\ MatchFrom(pattern, i, s, pos + 1)

\* pattern.match(s): a match starting at position 0
Match(pattern, s) == MatchFrom(pattern, 1, s, 1)

\* The default regex ".*"
MatchAnything == [items |-> <<[cls |-> "any", q |-> "*"]>>, end |-> FALSE]

\* The regex "^[0-9]+$"
DigitsOnly ==
    [items |-> <<[cls |-> "digit", q |-> "1"], [cls |-> "digit", q |-> "*"]>>, end |-> TRUE]

\* ------------------------------------------------------------ QualityIssue

QualityIssue(dataset, rule_name, severity, message) ==
    [dataset |-> dataset, rule_name |-> rule_name, severity |-> severity,
     message |-> message]

Ok(issues) == [exc |-> "none", issues |-> issues]
Raise(exc) == [exc |-> exc, issues |-> <<>>]

\* issues.append(QualityIssue(dataset, rule_name=rule["name"], ...)): the
\* subscription rule["name"] raises KeyError when the descriptor has no name.
AppendIssue(dataset, rule, severity, message) ==
    IF "name" \in DOMAIN rule
    THEN Ok(<<QualityIssue(dataset, rule["name"], severity, message)>>)
    ELSE Raise("KeyError")

RECURSIVE ForEachRowNewestFirst(_, _, _)
\* ForEachRow with each row's issues put in front of the list instead of after it.
ForEachRowNewestFirst(rows, k, acc) ==
    IF k > Len(rows) THEN Ok(acc)
    ELSE IF rows[k].exc # "none" THEN Raise(rows[k].exc)
    ELSE ForEachRowNewestFirst(rows, k + 1, rows[k].issues \o acc)

RECURSIVE ForEachRow(_, _, _)
\* The body of `for idx, value in df[column].items()`: the rows are visited in
\* index order, each appends what it appends, and the first row that raises
\* ends the loop with its exception.
ForEachRow(rows, k, acc) ==
    IF k > Len(rows) THEN Ok(acc)
    ELSE IF rows[k].exc # "none" THEN Raise(rows[k].exc)
    ELSE ForEachRow(rows, k + 1, acc \o rows[k].issues)

\* ---------------------------------------------------------------- recency

\* datetime.utcnow().date().replace(day=1)
FirstOfMonth(today) == [today EXCEPT !.day = 1]

MonthsDiff(limit, date_value) ==
    (limit.year - date_value.year) * 12 + (limit.month - date_value.month)

\* TooOld with >= in place of >.
AtLeastAsOld(months_diff, max_months) == months_diff >= max_months

TooOld(months_diff, max_months) == months_diff > max_months

RecencyRow(dataset, rule, max_months, limit, idx, value) ==
    LET parsed == FromIsoFormat(Str(value))
        months_diff == MonthsDiff(limit, parsed.date)
    IN  IF parsed.exc # "none" THEN
            AppendIssue(dataset, rule, "high",
                        [linha |-> idx, texto |-> "data invalida", valor |-> Str(value)])
        ELSE IF TooOld(months_diff, max_months) THEN
            AppendIssue(dataset, rule, "medium",
                        [linha |-> idx, texto |-> "consentimento desatualizado",
                         meses |-> months_diff])
        ELSE Ok(<<>>)

_check_recency(dataset, df, column, rule, limit) ==
    LET max_months == Get(rule, "max_months", 12)
    IN  IF column \notin DOMAIN df THEN Raise("KeyError")
        ELSE ForEachRow([k \in 1..Len(df[column]) |->
                            RecencyRow(dataset, rule, max_months, limit, k - 1,
                                       df[column][k])], 1, <<>>)

\* ---------------------------------------------------------------- pattern

\* PatternRow without the `not`: a matching value is reported.
PatternRowInverted(dataset, rule, pattern, idx, value) ==
    IF Match(pattern, Str(value)) THEN
        AppendIssue(dataset, rule, "high",
                    [linha |-> idx, texto |-> "fora do padrao", valor |-> Str(value)])
    ELSE Ok(<<>>)

PatternRow(dataset, rule, pattern, idx, value) ==
    IF ~Match(pattern, Str(value)) THEN
        AppendIssue(dataset, rule, "high",
                    [linha |-> idx, texto |-> "fora do padrao", valor |-> Str(value)])
    ELSE Ok(<<>>)

_check_pattern(dataset, df, column, rule) ==
    LET pattern == Get(rule, "regex", MatchAnything)
    IN  IF column \notin DOMAIN df THEN Raise("KeyError")
        ELSE ForEachRow([k \in 1..Len(df[column]) |->
                            PatternRow(dataset, rule, pattern, k - 1, df[column][k])],
                        1, <<>>)

\* ------------------------------------------------------------ numeric_min

\* AtOrBelow with < in place of <=.
StrictlyBelow(numeric_value, min_value) ==
    numeric_value.kind = "-inf" \/ (numeric_value.kind = "fin" /\ numeric_value.c < min_value)

AtOrBelow(numeric_value, min_value) == FloatLe(numeric_value, min_value)

\* except (TypeError, ValueError)
Caught(exc) == exc \in {"TypeError", "ValueError"}

NumericMinRow(dataset, rule, min_value, idx, value) ==
    LET numeric_value == Float(value)
    IN  IF numeric_value.exc # "none" THEN
            IF Caught(numeric_value.exc) THEN
                AppendIssue(dataset, rule, "high",
                            [linha |-> idx, texto |-> "nao numerico", valor |-> Str(value)])
            ELSE Raise(numeric_value.exc)
        ELSE IF AtOrBelow(numeric_value.f, min_value) THEN
            AppendIssue(dataset, rule, "medium",
                        [linha |-> idx, texto |-> "abaixo do minimo",
                         valor |-> StrFloat(numeric_value.f)])
        ELSE Ok(<<>>)

_check_numeric_min(dataset, df, column, rule) ==
    LET min_value == Get(rule, "min_value", 0)
    IN  IF column \notin DOMAIN df THEN Raise("KeyError")
        ELSE ForEachRow([k \in 1..Len(df[column]) |->
                            NumericMinRow(dataset, rule, min_value, k - 1, df[column][k])],
                        1, <<>>)

\* --------------------------------------------------------------- validate

KnownTypes == {"recency", "pattern", "numeric_min"}

\* Dispatch with a final `else: raise ValueError` for an unknown rule_type.
DispatchRejectingUnknown(dataset, df, rule, today) ==
    LET rule_type == Get(rule, "type", PyNone)
        column == Get(rule, "column", PyNone)
    IN  CASE rule_type = "recency" ->
                _check_recency(dataset, df, column, rule, FirstOfMonth(today))
          [] rule_type = "pattern" -> _check_pattern(dataset, df, column, rule)
          [] rule_type = "numeric_min" -> _check_numeric_min(dataset, df, column, rule)
          [] OTHER -> Raise("ValueError")

\* The body of the loop over the rules: the if / elif chain on rule_type.  A
\* rule_type that is none of the three falls through and extends nothing.
Dispatch(dataset, df, rule, today) ==
    LET rule_type == Get(rule, "type", PyNone)
        column == Get(rule, "column", PyNone)
    IN  CASE rule_type = "recency" ->
                _check_recency(dataset, df, column, rule, FirstOfMonth(today))
          [] rule_type = "pattern" -> _check_pattern(dataset, df, column, rule)
          [] rule_type = "numeric_min" -> _check_numeric_min(dataset, df, column, rule)
          [] OTHER -> Ok(<<>>)

RECURSIVE validate(_, _, _, _, _, _)
\* validate as a function of its inputs: the rules from position k on are
\* dispatched in order, rule i on the day days[i], onto the issues acc.
validate(dataset, df, rules, days, k, acc) ==
    IF k > Len(rules) THEN Ok(acc)
    ELSE LET result == Dispatch(dataset, df, rules[k], days[k])
         IN  IF result.exc # "none" THEN Raise(result.exc)
             ELSE validate(dataset, df, rules, days, k + 1, acc \o result.issues)

\* ----------------------------------------------------------------- inputs

RuleNames == <<"r1", "r2", "r3", "r4">>

Named(body, i) == body @@ ("name" :> RuleNames[i])

\* The rule descriptors a configuration may hold at position i of a rule list.
RuleChoices(i) ==
    { Named([type |-> "numeric_min", column |-> "amount", min_value |-> 0], i),
      Named([type |-> "recency", column |-> "amount", max_months |-> 1], i),
      Named([type |-> "pattern", column |-> "amount", regex |-> DigitsOnly], i),
      [type |-> "numeric_min", column |-> "amount"],
      [type |-> "uniqueness", column |-> "amount"] }

RuleListsOfLen(n) ==
    { rs \in [1..n -> UNION { RuleChoices(i) : i \in 1..n }] :
        \A i \in 1..n : rs[i] \in RuleChoices(i) }

RuleLists == UNION { RuleListsOfLen(n) : n \in 0..MaxRules }

\* The cell values a table may hold.
Cells ==
    { IntCell(-5), IntCell(0), IntCell(10), NaNCell, NoneCell, HugeIntCell,
      StrCell(<<"2", "0", "2", "4", "-", "1", "1", "-", "1", "5">>),
      StrCell(<<"2", "0", "2", "5", "-", "0", "3", "-", "0", "1">>) }

Columns == UNION { [1..n -> Cells] : n \in 0..MaxRows }

\* A DataFrame with the single column `amount`.
DataFrames == { [amount |-> col] : col \in Columns }

\* The date the wall clock shows when a behaviour starts.
StartDate == [year |-> 2024, month |-> 12, day |-> 31]

NextDay(d) ==
    IF d.day < DaysInMonth(d.year, d.month) THEN [d EXCEPT !.day = d.day + 1]
    ELSE IF d.month < 12 THEN [d EXCEPT !.month = d.month + 1, !.day = 1]
    ELSE [year |-> d.year + 1, month |-> 1, day |-> 1]

NoLimit == [year |-> 0, month |-> 0, day |-> 0]

\* ------------------------------------------------------ pipeline inputs

Datasets == {"customers", "transactions"}

\* Rule descriptors of the configurations a pipeline run is checked with.
RunRuleChoices(i) ==
    { Named([type |-> "numeric_min", column |-> "amount", min_value |-> 0], i),
      [type |-> "numeric_min", column |-> "amount"],
      Named([type |-> "pattern", column |-> "valor"], i) }

RunRuleListsOfLen(n) ==
    { rs \in [1..n -> UNION { RunRuleChoices(i) : i \in 1..n }] :
        \A i \in 1..n : rs[i] \in RunRuleChoices(i) }

RunRuleLists == UNION { RunRuleListsOfLen(n) : n \in 0..MaxRunRules }

RunCells == { IntCell(-5), IntCell(10) }

\* A raw CSV file: whether it exists, and the frame read_csv makes of it.
RawFiles ==
    { [exists |-> TRUE, df |-> [amount |-> col]] :
        col \in UNION { [1..n -> RunCells] : n \in 0..MaxRunRows } }
    \cup { [exists |-> FALSE, df |-> [amount |-> <<>>]] }

Policy(name, roles, datasets, permissions) ==
    [name |-> name, roles |-> roles, datasets |-> datasets, permissions |-> permissions]

PolicyChoices ==
    { Policy("governance_read", {"data_governance"}, {"customers"}, {"read"}),
      Policy("finance_read", {"finance_analyst"}, {"transactions"}, {"read"}),
      Policy("finance_write", {"finance_analyst", "data_governance"},
             {"transactions"}, {"write"}) }

PolicySets == { ps \in SUBSET PolicyChoices : Cardinality(ps) <= MaxPolicies }

\* The content of config/policies.yaml and of data/raw before setup().
Configs ==
    [quality_rules : [customers : RunRuleLists, transactions : RunRuleLists],
     access_policies : PolicySets]

NoConfig ==
    [quality_rules |-> [customers |-> <<>>, transactions |-> <<>>], access_policies |-> {}]

NoRawFiles == [ds \in Datasets |-> [exists |-> FALSE, df |-> [amount |-> <<>>]]]

\* RunSteps with the consent filter moved ahead of the validation loop.
RunStepsTransformFirst ==
    << "access_customers", "load_customers", "access_transactions", "load_transactions",
       "write_consenting", "lineage_consenting",
       "validate_customers", "validate_transactions", "write_join", "lineage_join",
       "persist_audit_log" >>

\* The statements of run() after the audit_log literal, in program order.
RunSteps ==
    << "access_customers", "load_customers", "access_transactions", "load_transactions",
       "validate_customers", "validate_transactions",
       "write_consenting", "lineage_consenting", "write_join", "lineage_join",
       "persist_audit_log" >>

StepIndex(step) == CHOOSE k \in 1..Len(RunSteps) : RunSteps[k] = step

After(step) ==
    IF StepIndex(step) = Len(RunSteps) THEN "done" ELSE RunSteps[StepIndex(step) + 1]

\* ------------------------------------------------------------------ state

VARIABLES
    quality_rules,  \* QualityValidator.quality_rules: dataset -> rule list
    clock,          \* today's UTC date, what datetime.utcnow().date() returns
    ticks,          \* midnights crossed so far
    v_pc,           \* validate: "idle", "loop", "returned" or "raised"
    v_dataset,      \* validate's argument dataset
    v_df,           \* validate's argument df
    v_idx,          \* position in the rule list of the rule the loop is at
    issues,         \* validate's local list `issues`
    v_exc,          \* the exception validate ended with, or "none"
    limits,         \* per rule evaluated so far, the `limit` _check_recency computed
    config,         \* what policies.yaml holds
    raw,            \* data/raw: dataset -> [exists, df]
    unique_ids,     \* whether customer_id is unique among the consenting customers
    setup_done,     \* quality_validator is not None
    policies,       \* AccessController._policies
    run_pc,         \* run(): "idle", a step of RunSteps, "done" or "raised"
    run_exc,        \* the exception run() ended with, or "none"
    loaded,         \* the datasets _load_dataset has read
    audit_issues,   \* audit_log["quality_issues"]
    files,          \* the files written under data/processed and logs
    lineage         \* LineageTracker._records, each by its dataset

vvars == <<quality_rules, v_pc, v_dataset, v_df, v_idx, issues, v_exc, limits>>

pvars == <<config, raw, unique_ids, setup_done, policies, run_pc, run_exc, loaded,
           audit_issues, files, lineage>>

vars == <<quality_rules, clock, ticks, v_pc, v_dataset, v_df, v_idx, issues, v_exc, limits,
          config, raw, unique_ids, setup_done, policies, run_pc, run_exc, loaded,
          audit_issues, files, lineage>>

\* self.quality_rules.get(dataset, [])
RulesFor(dataset) == Get(quality_rules, dataset, <<>>)

ValidatorIdle ==
    /\ v_pc = "idle"
    /\ v_dataset = PyNone
    /\ v_df = [amount |-> <<>>]
    /\ v_idx = 1
    /\ issues = <<>>
    /\ v_exc = "none"
    /\ limits = <<>>

PipelineIdle ==
    /\ setup_done = FALSE
    /\ policies = {}
    /\ run_pc = "idle"
    /\ run_exc = "none"
    /\ loaded = {}
    /\ audit_issues = <<>>
    /\ files = {}
    /\ lineage = <<>>

\* A QualityValidator constructed with a rule set, and validate not yet called.
\* The rule set holds rules for `transactions`, or for another dataset only.
Init ==
    /\ \E rs \in RuleLists :
          quality_rules \in { [transactions |-> rs] }
                            \cup { [customers |-> <<Named([type |-> "pattern",
                                                         column |-> "amount"], 1)>>] }
    /\ clock = StartDate
    /\ ticks = 0
    /\ ValidatorIdle
    /\ config = NoConfig
    /\ raw = NoRawFiles
    /\ unique_ids = TRUE
    /\ PipelineIdle

\* The wall clock passes midnight.
Tick ==
    /\ ticks < MaxTicks
    /\ ticks' = ticks + 1
    /\ clock' = NextDay(clock)
    /\ UNCHANGED <<vvars, pvars>>

\* validate(dataset, df) is entered: issues = [] and the loop starts.
Enter(dataset, df) ==
    /\ v_pc = "idle"
    /\ v_pc' = "loop"
    /\ v_dataset' = dataset
    /\ v_df' = df
    /\ v_idx' = 1
    /\ issues' = <<>>
    /\ v_exc' = "none"
    /\ limits' = <<>>
    /\ UNCHANGED quality_rules

\* A caller validates a table of `transactions`.
Call ==
    /\ \E df \in DataFrames : Enter("transactions", df)
    /\ UNCHANGED <<clock, ticks, pvars>>

\* One iteration of `for rule in ...`: the rule is dispatched and its issues
\* extend the list, or its exception leaves validate.
RuleStep ==
    /\ v_pc = "loop"
    /\ v_idx <= Len(RulesFor(v_dataset))
    /\ LET rule == RulesFor(v_dataset)[v_idx]
           result == Dispatch(v_dataset, v_df, rule, clock)
       IN  /\ limits' = Append(limits,
                               IF Get(rule, "type", PyNone) = "recency"
                               THEN FirstOfMonth(clock) ELSE NoLimit)
           /\ IF result.exc = "none"
              THEN /\ issues' = issues \o result.issues
                   /\ v_idx' = v_idx + 1
                   /\ UNCHANGED <<v_pc, v_exc>>
              ELSE /\ v_pc' = "raised"
                   /\ v_exc' = result.exc
                   /\ UNCHANGED <<issues, v_idx>>
    /\ UNCHANGED <<quality_rules, v_dataset, v_df, clock, ticks, pvars>>

\* return issues
Return ==
    /\ v_pc = "loop"
    /\ v_idx > Len(RulesFor(v_dataset))
    /\ v_pc' = "returned"
    /\ UNCHANGED <<quality_rules, v_dataset, v_df, v_idx, issues, v_exc, limits,
                   clock, ticks, pvars>>

Next == Call \/ RuleStep \/ Return \/ Tick

Spec == Init /\ [][Next]_vars

\* --------------------------------------------------------------- pipeline

\* The arguments run() passes at a step.
StepDataset(step) ==
    IF step \in {"access_customers", "load_customers", "validate_customers"}
    THEN "customers" ELSE "transactions"

StepRole(step) == IF step = "access_customers" THEN "data_governance" ELSE "finance_analyst"

\* check_access with the role, the dataset and the permission each looked for
\* in any policy, not in one and the same policy.
check_access_any_policy(role, dataset, permission) ==
    /\ \E policy \in policies : role \in policy.roles
    /\ \E policy \in policies : dataset \in policy.datasets
    /\ \E policy \in policies : permission \in policy.permissions

\* AccessController.check_access
check_access(role, dataset, permission) ==
    \E policy \in policies :
        /\ role \in policy.roles /\ dataset \in policy.datasets
        /\ permission \in policy.permissions

\* A pipeline over a configuration and raw files, before setup().
InitRun ==
    /\ config \in Configs
    /\ raw \in [Datasets -> RawFiles]
    /\ unique_ids \in BOOLEAN
    /\ quality_rules = NoConfig.quality_rules
    /\ clock = StartDate
    /\ ticks = 0
    /\ ValidatorIdle
    /\ PipelineIdle

ValidatorUnchanged ==
    UNCHANGED <<quality_rules, v_pc, v_dataset, v_df, v_idx, issues, v_exc, limits>>

InputsUnchanged == UNCHANGED <<config, raw, unique_ids, clock, ticks>>

\* run() leaves with an exception.
RunRaises(exc) ==
    /\ run_pc' = "raised"
    /\ run_exc' = exc

\* setup(): the policies are loaded, the validator is built on the quality
\* rules and every access policy is added to the controller.
setup ==
    /\ run_pc = "idle" /\ ~setup_done
    /\ setup_done' = TRUE
    /\ quality_rules' = config.quality_rules
    /\ policies' = config.access_policies
    /\ UNCHANGED <<v_pc, v_dataset, v_df, v_idx, issues, v_exc, limits>>
    /\ UNCHANGED <<run_pc, run_exc, loaded, audit_issues, files, lineage>>
    /\ InputsUnchanged

\* run() is entered: RuntimeError without setup(), else the audit log is begun.
run ==
    /\ run_pc = "idle"
    /\ IF setup_done
       THEN run_pc' = RunSteps[1] /\ UNCHANGED run_exc
       ELSE RunRaises("RuntimeError")
    /\ UNCHANGED <<setup_done, policies, loaded, audit_issues, files, lineage>>
    /\ ValidatorUnchanged /\ InputsUnchanged

_enforce_access ==
    /\ run_pc \in {"access_customers", "access_transactions"}
    /\ IF check_access(StepRole(run_pc), StepDataset(run_pc), "read")
       THEN run_pc' = After(run_pc) /\ UNCHANGED run_exc
       ELSE RunRaises("ComplianceException")
    /\ UNCHANGED <<setup_done, policies, loaded, audit_issues, files, lineage>>
    /\ ValidatorUnchanged /\ InputsUnchanged

\* _load_dataset: both assets are in the catalog since setup(); the raw file
\* is read when it exists.
_load_dataset ==
    /\ run_pc \in {"load_customers", "load_transactions"}
    /\ IF raw[StepDataset(run_pc)].exists
       THEN /\ loaded' = loaded \cup {StepDataset(run_pc)}
            /\ run_pc' = After(run_pc)
            /\ UNCHANGED run_exc
       ELSE RunRaises("FileNotFoundError") /\ UNCHANGED loaded
    /\ UNCHANGED <<setup_done, policies, audit_issues, files, lineage>>
    /\ ValidatorUnchanged /\ InputsUnchanged

\* self.quality_validator.validate(dataset_name, df) is called.
ValidateCall ==
    /\ run_pc \in {"validate_customers", "validate_transactions"}
    /\ Enter(StepDataset(run_pc), raw[StepDataset(run_pc)].df)
    /\ UNCHANGED <<setup_done, policies, run_pc, run_exc, loaded, audit_issues, files,
                   lineage>>
    /\ InputsUnchanged

\* validate returned: audit_log["quality_issues"] is extended with its issues.
ValidateCollect ==
    /\ run_pc \in {"validate_customers", "validate_transactions"}
    /\ v_pc = "returned"
    /\ audit_issues' = audit_issues \o issues
    /\ run_pc' = After(run_pc)
    /\ v_pc' = "idle" /\ v_dataset' = PyNone /\ v_df' = [amount |-> <<>>]
    /\ v_idx' = 1 /\ issues' = <<>> /\ limits' = <<>>
    /\ UNCHANGED <<quality_rules, v_exc, setup_done, policies, run_exc, loaded, files,
                   lineage>>
    /\ InputsUnchanged

\* validate raised: nothing in run() catches it.
ValidatePropagate ==
    /\ run_pc \in {"validate_customers", "validate_transactions"}
    /\ v_pc = "raised"
    /\ RunRaises(v_exc)
    /\ UNCHANGED <<setup_done, policies, loaded, audit_issues, files, lineage>>
    /\ ValidatorUnchanged /\ InputsUnchanged

\* consented_customers.to_csv(... "customers_consenting.csv")
WriteConsenting ==
    /\ run_pc = "write_consenting"
    /\ files' = files \cup {"customers_consenting.csv"}
    /\ run_pc' = After(run_pc)
    /\ UNCHANGED <<setup_done, policies, run_exc, loaded, audit_issues, lineage>>
    /\ ValidatorUnchanged /\ InputsUnchanged

\* lineage_tracker.add_record(LineageRecord(dataset=...))
AddLineage ==
    /\ run_pc \in {"lineage_consenting", "lineage_join"}
    /\ lineage' = Append(lineage, IF run_pc = "lineage_consenting"
                                  THEN "customers_consenting"
                                  ELSE "transactions_with_customers")
    /\ run_pc' = After(run_pc)
    /\ UNCHANGED <<setup_done, policies, run_exc, loaded, audit_issues, files>>
    /\ ValidatorUnchanged /\ InputsUnchanged

\* transactions_df.merge(..., validate="many_to_one") and to_csv: the merge
\* raises MergeError when a consenting customer_id is not unique.
WriteJoin ==
    /\ run_pc = "write_join"
    /\ IF unique_ids
       THEN /\ files' = files \cup {"transactions_with_customers.csv"}
            /\ run_pc' = After(run_pc)
            /\ UNCHANGED run_exc
       ELSE RunRaises("MergeError") /\ UNCHANGED files
    /\ UNCHANGED <<setup_done, policies, loaded, audit_issues, lineage>>
    /\ ValidatorUnchanged /\ InputsUnchanged

\* _persist_audit_log(audit_log), after which run() returns.
_persist_audit_log ==
    /\ run_pc = "persist_audit_log"
    /\ files' = files \cup {"audit.json"}
    /\ run_pc' = After(run_pc)
    /\ UNCHANGED <<setup_done, policies, run_exc, loaded, audit_issues, lineage>>
    /\ ValidatorUnchanged /\ InputsUnchanged

NextRun ==
    \/ setup \/ run \/ _enforce_access \/ _load_dataset
    \/ ValidateCall \/ RuleStep \/ Return \/ ValidateCollect \/ ValidatePropagate
    \/ WriteConsenting \/ AddLineage \/ WriteJoin \/ _persist_audit_log
    \/ Tick

SpecRun == InitRun /\ [][NextRun]_vars

\* ----------------------------------------------------- reading a result

\* The rule list of the call in progress, and the table's column a rule reads.
CallRules == RulesFor(v_dataset)

TypeOf(rule) == Get(rule, "type", PyNone)

IsKnown(rule) == TypeOf(rule) \in KnownTypes

HasName(rule) == "name" \in DOMAIN rule

ColumnOf(rule) ==
    IF Get(rule, "column", PyNone) \in DOMAIN v_df THEN v_df[Get(rule, "column", PyNone)]
    ELSE <<>>

\* Positions in `issues` of the issues rule i reported for the row with index idx.
IssuesAt(i, idx) ==
    { k \in 1..Len(issues) :
        /\ HasName(CallRules[i])
        /\ issues[k].rule_name = CallRules[i].name
        /\ issues[k].message.linha = idx }

\* The position in the rule list of the rule an issue names (rule names are
\* unique within a rule list).
RuleOfIssue(k) ==
    CHOOSE i \in 1..Len(CallRules) :
        HasName(CallRules[i]) /\ CallRules[i].name = issues[k].rule_name

RulePositions(type) == { i \in 1..Len(CallRules) : TypeOf(CallRules[i]) = type }

RowIndexes(i) == { k - 1 : k \in 1..Len(ColumnOf(CallRules[i])) }

CellAt(i, idx) == ColumnOf(CallRules[i])[idx + 1]

Severities(i, idx) == { issues[k].severity : k \in IssuesAt(i, idx) }

\* ------------------------------------------------------------------ claims

\* C1: the issues validate returns are ordered by rule declaration order and,
\* within one rule, by strictly ascending row index.
C1_IssuesInRuleThenRowOrder ==
    \A a, b \in 1..Len(issues) :
        a < b =>
            /\ RuleOfIssue(a) <= RuleOfIssue(b)
            /\ RuleOfIssue(a) = RuleOfIssue(b)
                  => issues[a].message.linha < issues[b].message.linha

\* C1 witness: validate has returned issues of two rules, two of them of one rule.
C1_Witness ==
    /\ v_pc = "returned"
    /\ \E a, b \in 1..Len(issues) : a < b /\ RuleOfIssue(a) = RuleOfIssue(b)
    /\ \E a, b \in 1..Len(issues) : RuleOfIssue(a) < RuleOfIssue(b)

\* A descriptor is structurally valid for the table: it has a name and its
\* column is a column of the table (every regex drawn compiles).
StructurallyValid(rule) ==
    HasName(rule) /\ Get(rule, "column", PyNone) \in DOMAIN v_df

\* C2: with every descriptor structurally valid, validate never ends with an
\* exception, whatever the cells hold.
C2_CellContentsNeverRaise ==
    (\A i \in 1..Len(CallRules) : StructurallyValid(CallRules[i])) => v_pc # "raised"

\* C3: a rule list holding a descriptor of a known type without a name never
\* makes validate return normally.
C3_MissingNameNeverReturns ==
    v_pc = "returned" =>
        \A i \in 1..Len(CallRules) : IsKnown(CallRules[i]) => HasName(CallRules[i])

\* float(cell) succeeds with a finite number (Float(cell).f.c, in hundredths).
CoercesToNumber(cell) == Float(cell).exc = "none" /\ Float(cell).f.kind = "fin"

\* C4: in a returned result, a numeric_min rule with minimum m reports exactly
\* one issue, of severity medium, for a row whose number v has v <= m, and none
\* for a row with v > m; rule r1 with min_value 0 on rows [-5, 10] reports one
\* issue, for row 0, of severity medium.
C4_NumericMinBoundary ==
    v_pc = "returned" =>
        /\ \A i \in RulePositions("numeric_min") : \A idx \in RowIndexes(i) :
              LET m == Get(CallRules[i], "min_value", 0)
                  cell == CellAt(i, idx)
              IN  CoercesToNumber(cell) =>
                     IF Float(cell).f.c <= m
                     THEN Cardinality(IssuesAt(i, idx)) = 1
                          /\ Severities(i, idx) = {"medium"}
                     ELSE IssuesAt(i, idx) = {}
        /\ ( /\ Len(CallRules) = 1
             /\ TypeOf(CallRules[1]) = "numeric_min" /\ HasName(CallRules[1])
             /\ v_df.amount = <<IntCell(-5), IntCell(10)>> )
           => /\ Len(issues) = 1
              /\ issues[1].message.linha = 0
              /\ issues[1].severity = "medium"

\* C4 witness: a returned numeric_min result over a row at the minimum and a
\* row above it.
C4_Witness ==
    /\ v_pc = "returned"
    /\ Len(CallRules) = 1 /\ TypeOf(CallRules[1]) = "numeric_min"
    /\ Get(CallRules[1], "min_value", 0) = 0
    /\ v_df.amount = <<IntCell(0), IntCell(10)>>
    /\ Len(issues) = 1

\* A cell that is no number: absent (None, or the missing marker NaN), text
\* that is no number, or a value float() cannot take.
NotANumber(cell) ==
    \/ cell.t = "None"
    \/ cell = NaNCell
    \/ Float(cell).exc # "none"

\* C5: in a returned result, a numeric_min rule reports exactly one issue, of
\* severity high, for every row whose cell is no number.
C5_UncoercibleIsHigh ==
    v_pc = "returned" =>
        \A i \in RulePositions("numeric_min") : \A idx \in RowIndexes(i) :
            NotANumber(CellAt(i, idx)) =>
                /\ Cardinality(IssuesAt(i, idx)) = 1
                /\ Severities(i, idx) = {"high"}

\* Whole calendar months from a date to the reference month M.
MonthsBefore(M, d) == (M.year - d.year) * 12 + (M.month - d.month)

\* C6: in a returned result, a recency rule judged against reference month M
\* reports nothing for a row dated max_months months before M, exactly one
\* medium issue for a row dated max_months + 1 months before M, nothing for a
\* row dated after M, and exactly one high issue for a row that is no ISO date.
C6_RecencyBoundary ==
    v_pc = "returned" =>
        \A i \in RulePositions("recency") : \A idx \in RowIndexes(i) :
            LET max_months == Get(CallRules[i], "max_months", 12)
                parsed == FromIsoFormat(Str(CellAt(i, idx)))
                months == MonthsBefore(limits[i], parsed.date)
            IN  IF parsed.exc # "none"
                THEN Cardinality(IssuesAt(i, idx)) = 1 /\ Severities(i, idx) = {"high"}
                ELSE /\ months = max_months => IssuesAt(i, idx) = {}
                     /\ months < 0 => IssuesAt(i, idx) = {}
                     /\ months = max_months + 1 =>
                           /\ Cardinality(IssuesAt(i, idx)) = 1
                           /\ Severities(i, idx) = {"medium"}

\* C6 witness: a returned recency result over a row one month too old and a
\* row dated in the future.
C6_Witness ==
    /\ v_pc = "returned"
    /\ \E i \in RulePositions("recency") : \E old, future \in RowIndexes(i) :
          LET max_months == Get(CallRules[i], "max_months", 12)
              dOld == FromIsoFormat(Str(CellAt(i, old)))
              dFuture == FromIsoFormat(Str(CellAt(i, future)))
          IN  /\ dOld.exc = "none" /\ dFuture.exc = "none"
              /\ MonthsBefore(limits[i], dOld.date) = max_months + 1
              /\ MonthsBefore(limits[i], dFuture.date) < 0
              /\ Cardinality(IssuesAt(i, old)) = 1

\* The rows a rule flagged.
FlaggedRows(i) == { idx \in RowIndexes(i) : IssuesAt(i, idx) # {} }

\* C7: within one validate call every recency rule is judged against the same
\* reference month, so two recency rules with equal max_months on the same
\* column flag the same rows.
C7_OneReferenceMonthPerCall ==
    \A i, j \in RulePositions("recency") :
        (i <= Len(limits) /\ j <= Len(limits)) =>
            /\ limits[i] = limits[j]
            /\ ( /\ v_pc = "returned"
                 /\ Get(CallRules[i], "max_months", 12) = Get(CallRules[j], "max_months", 12)
                 /\ Get(CallRules[i], "column", PyNone) = Get(CallRules[j], "column", PyNone) )
               => FlaggedRows(i) = FlaggedRows(j)

\* The day rule i of the call was dispatched on (the reference month for a
\* recency rule; no other rule reads it).
DayOf(i) == IF i <= Len(limits) /\ limits[i] # NoLimit THEN limits[i] ELSE clock

KnownPositions == { i \in 1..Len(CallRules) : IsKnown(CallRules[i]) }

RECURSIVE Ascending(_)
\* The members of a set of positions, in ascending order.
Ascending(S) ==
    IF S = {} THEN <<>>
    ELSE LET m == CHOOSE x \in S : \A y \in S : x <= y
         IN  <<m>> \o Ascending(S \ {m})

\* C8: rules of an unknown type add no issue and do not stop the call: validate
\* ends as it ends on the rule list with those rules removed, with the same
\* issue sequence or the same exception.
C8_UnknownTypesSkipped ==
    v_pc \in {"returned", "raised"} =>
        LET kept == Ascending(KnownPositions)
            without == validate(v_dataset, v_df,
                                [n \in 1..Len(kept) |-> CallRules[kept[n]]],
                                [n \in 1..Len(kept) |-> DayOf(kept[n])], 1, <<>>)
        IN  /\ without.exc = v_exc
            /\ v_pc = "returned" => without.issues = issues

\* C8 witness: validate returned the issues of a rule declared after a rule of
\* an unknown type.
C8_Witness ==
    /\ v_pc = "returned"
    /\ Len(CallRules) = 2
    /\ ~IsKnown(CallRules[1]) /\ IsKnown(CallRules[2])
    /\ Len(issues) > 0

\* The evaluation predicate of a rule of a known type on a cell.
Violates(rule, cell, M) ==
    CASE TypeOf(rule) = "recency" ->
            LET parsed == FromIsoFormat(Str(cell))
            IN  parsed.exc # "none"
                \/ MonthsBefore(M, parsed.date) > Get(rule, "max_months", 12)
      [] TypeOf(rule) = "pattern" -> ~Match(Get(rule, "regex", MatchAnything), Str(cell))
      [] TypeOf(rule) = "numeric_min" ->
            \/ Float(cell).exc \in {"TypeError", "ValueError"}
            \/ Float(cell).exc = "none"
               /\ FloatLe(Float(cell).f, Get(rule, "min_value", 0))

\* The (rule, row) pairs of the call whose rule marks the row as violating.
ViolatingPairs ==
    { p \in KnownPositions \X (0..Len(v_df.amount)) :
        /\ p[2] \in RowIndexes(p[1])
        /\ Violates(CallRules[p[1]], CellAt(p[1], p[2]), DayOf(p[1])) }

\* C9: validate holds at most one issue per (rule, row) pair at any time, and
\* a returned result holds exactly one for each pair the rule's predicate marks
\* and none else; so a rule adds at most one issue per row and the total is at
\* most rules times rows.
C9_OneIssuePerRuleAndRow ==
    /\ \A i \in KnownPositions : \A idx \in RowIndexes(i) :
          Cardinality(IssuesAt(i, idx)) <= 1
    /\ Len(issues) <= Len(CallRules) * Len(v_df.amount)
    /\ v_pc = "returned" =>
          /\ \A i \in KnownPositions : \A idx \in RowIndexes(i) :
                (Cardinality(IssuesAt(i, idx)) = 1) <=> (<<i, idx>> \in ViolatingPairs)
          /\ Len(issues) = Cardinality(ViolatingPairs)

\* C9 witness: a returned result in which one rule flagged one row and passed
\* another, and a second rule flagged a row too.
C9_Witness ==
    /\ v_pc = "returned"
    /\ Len(CallRules) = 2 /\ KnownPositions = {1, 2}
    /\ \E a, b \in RowIndexes(1) : IssuesAt(1, a) # {} /\ IssuesAt(1, b) = {}
    /\ \E a \in RowIndexes(2) : IssuesAt(2, a) # {}

\* C10: once validate has raised during run(), run() goes no further than
\* raising the same exception: no processed file and no audit log is written
\* and no lineage record is added.
C10_ValidateErrorAbortsRun ==
    v_pc = "raised" =>
        /\ run_pc \in {"validate_customers", "validate_transactions", "raised"}
        /\ run_pc = "raised" => run_exc = v_exc
        /\ files = {}
        /\ lineage = <<>>

\* C10 witness: run() has ended with the KeyError validate raised on
\* transactions, after the issues of customers were collected.
C10_Witness ==
    /\ run_pc = "raised" /\ run_exc = "KeyError"
    /\ v_pc = "raised" /\ v_dataset = "transactions"
    /\ audit_issues # <<>>
    /\ files = {} /\ lineage = <<>>

\* The registered policies that list the role, the dataset and the permission
\* together.
GrantingPolicies(role, dataset, permission) ==
    { policy \in policies :
        /\ role \in policy.roles
        /\ dataset \in policy.datasets
        /\ permission \in policy.permissions }

\* The role run() reads a dataset as.
ReaderOf(dataset) == IF dataset = "customers" THEN "data_governance" ELSE "finance_analyst"

ReadGranted(dataset) == GrantingPolicies(ReaderOf(dataset), dataset, "read") # {}

\* C11: run() loads a dataset, or gets past its access check, only when one
\* registered policy lists its reader role, the dataset and read together; and
\* when a check is refused run() ends with ComplianceException with that
\* dataset not loaded, no validation begun, and no processed file, lineage
\* record or audit log produced.
C11_LoadOnlyAfterAccessGranted ==
    /\ \A ds \in loaded : ReadGranted(ds)
    /\ run_pc \in {"load_customers", "access_transactions"} => ReadGranted("customers")
    /\ run_pc = "load_transactions" => ReadGranted("transactions")
    /\ "transactions" \in loaded => "customers" \in loaded
    /\ (run_pc = "raised" /\ setup_done /\ ~ReadGranted("customers"))
          => run_exc = "ComplianceException" /\ loaded = {}
    /\ (run_pc = "raised" /\ setup_done /\ "customers" \in loaded
        /\ ~ReadGranted("transactions"))
          => run_exc = "ComplianceException" /\ loaded = {"customers"}
    /\ run_exc = "ComplianceException" =>
          /\ \E ds \in Datasets : ds \notin loaded /\ ~ReadGranted(ds)
          /\ v_pc = "idle" /\ audit_issues = <<>>
          /\ files = {} /\ lineage = <<>>

\* C11 witness: run() ended with ComplianceException at the check of
\* transactions, customers being loaded, while the registered policies list
\* finance_analyst, transactions and read, but no single policy all three.
C11_Witness ==
    /\ run_pc = "raised" /\ run_exc = "ComplianceException"
    /\ loaded = {"customers"}
    /\ \E policy \in policies :
          "finance_analyst" \in policy.roles /\ "transactions" \in policy.datasets
    /\ \E policy \in policies : "read" \in policy.permissions
    /\ files = {} /\ lineage = <<>>

====
